---- MODULE Spec2Model ----
(***************************************************************************)
(* nifty_nesting: flatten / map / reduce / filter / pack_list_into /       *)
(* assert_same_structure over nested Python structures.                    *)
(*                                                                         *)
(* A Python value is a record [k, v, ch, ks]:                              *)
(*   k   its runtime type: "none", "int", "str", "list", "tuple", "set",   *)
(*       "dict", "nt" (the namedtuple Point), "attrs" (the attr.s class    *)
(*       Coordinates); a raised exception is a record whose k is the       *)
(*       exception's class name;                                           *)
(*   v   the number of an int;                                             *)
(*   ch  the children: the items of a list or tuple, the fields of a       *)
(*       record in declaration order, the values of a dict in insertion    *)
(*       order, the elements of a set in the set's iteration order;        *)
(*   ks  the keys of a dict, in insertion order.                           *)
(***************************************************************************)
EXTENDS Integers, Sequences, FiniteSets, TLC

\* ------------------------------------------------------------------ bounds

\* Structures of at most MaxNodes nodes (containers and leaves) are the inputs.
MaxNodes == 3
\* assert_same_structure is run on pairs of structures of at most MaxPairNodes nodes.
MaxPairNodes == 2
\* pack_list_into is given flat lists of at most MaxFlat items.
MaxFlat == 4

\* The ints held by leaves and set elements, and the keys of dicts.
Ints == {1, 2}
Keys == {1, 2}

\* ------------------------------------------------------------ interpreter

\* The interpreter's iteration order of the tuples in a set.
VARIABLE hash_order

\* ------------------------------------------------------------------ values

Val(k, v, ch, ks) == [k |-> k, v |-> v, ch |-> ch, ks |-> ks]

None == Val("none", 0, <<>>, <<>>)
PyInt(n) == Val("int", n, <<>>, <<>>)
List(ch) == Val("list", 0, ch, <<>>)
Tuple(ch) == Val("tuple", 0, ch, <<>>)
Point(ch) == Val("nt", 0, ch, <<>>)
Coordinates(ch) == Val("attrs", 0, ch, <<>>)
Dict(ks, ch) == Val("dict", 0, ch, ks)
Raise(e) == Val(e, 0, <<>>, <<>>)

Exceptions == {"ValueError", "TypeError", "IndexError", "AssertionError", "UnboundLocalError"}
IsErr(x) == x.k \in Exceptions

\* The number of fields of the record classes Point and Coordinates.
PointFields == 2
CoordinatesFields == 2

\* ------------------------------------------------------- Python built-ins

\* A number for each tuple of ints of 0..7, 0 for any other value.
RECURSIVE TupleCode(_)
TupleCode(ch) ==
    IF ch = <<>> THEN 0
    ELSE IF ch[Len(ch)].k # "int" THEN 0
    ELSE TupleCode(SubSeq(ch, 1, Len(ch) - 1)) * 9 + (ch[Len(ch)].v % 8) + 1

\* The interpreter's orders of the tuples in a set: the language leaves the
\* iteration order of a set to the interpreter's hash function.
HashOrders == {"asc", "desc"}

\* hash(n) == n for a small int, and a set iterates its table of 8 slots in slot
\* order: the elements of a set of ints of 0..7 come out ascending. The other
\* elements come out in the order of the interpreter's hash function, here
\* after the ints by rising code or before them by falling code; elements of
\* one slot come out in insertion order.
HashSlot(x) ==
    IF x.k = "int" /\ x.v >= 0 THEN x.v % 8
    ELSE IF hash_order = "asc" THEN 8 + TupleCode(x.ch)
    ELSE 0 - 1 - TupleCode(x.ch)

\* hash(x) raises TypeError for a list, a set, a dict, an attr.s object (eq
\* without frozen) and for a tuple that holds one.
RECURSIVE Hashable(_)
Hashable(x) ==
    \/ x.k \in {"none", "int", "str"}
    \/ /\ x.k \in {"tuple", "nt"}
       /\ \A i \in 1..Len(x.ch) : Hashable(x.ch[i])

RECURSIVE InsertBySlot(_, _)
InsertBySlot(x, seq) ==
    IF seq = <<>> THEN <<x>>
    ELSE IF Head(seq) = x THEN seq
    ELSE IF HashSlot(x) < HashSlot(Head(seq)) THEN
        (IF \E i \in 1..Len(seq) : seq[i] = x THEN seq ELSE <<x>> \o seq)
    ELSE <<Head(seq)>> \o InsertBySlot(x, Tail(seq))

RECURSIVE SetItems(_, _)
SetItems(elements, acc) ==
    IF elements = <<>> THEN acc
    ELSE SetItems(Tail(elements), InsertBySlot(Head(elements), acc))

\* set(elements): TypeError on an unhashable element, else the distinct elements.
Set(elements) ==
    IF \E i \in 1..Len(elements) : ~Hashable(elements[i]) THEN Raise("TypeError")
    ELSE Val("set", 0, SetItems(elements, <<>>), <<>>)

RECURSIVE SortInts(_)
SortInts(S) ==
    IF S = {} THEN <<>>
    ELSE LET m == CHOOSE x \in S : \A y \in S : x <= y
         IN <<m>> \o SortInts(S \ {m})

Range(seq) == {seq[i] : i \in 1..Len(seq)}

\* The keys as the dict iterates them, unsorted.
Unsorted(ks) == ks

\* sorted(keys)
Sorted(ks) == SortInts(Range(ks))

\* mapping[key]
GetItem(mapping, key) ==
    mapping.ch[CHOOSE i \in 1..Len(mapping.ks) : mapping.ks[i] = key]

\* ------------------------------------------------------------- classifier

is_sequence(element) == element.k \in {"list", "tuple", "nt", "str"}

is_mapping(element) == element.k = "dict"

is_set(element) == element.k = "set"

is_namedtuple(element) == element.k = "nt"

is_attrs_object(element) == element.k = "attrs"

is_scalar(element) ==
    IF element.k = "str" THEN TRUE
    ELSE IF is_attrs_object(element) THEN FALSE
    ELSE IF is_sequence(element) \/ is_set(element) THEN FALSE
    ELSE IF is_mapping(element) THEN FALSE
    ELSE TRUE

\* The is_atomic arguments: the default, and the two predicates of the tests,
\* lambda x: isinstance(x, Point) and
\* lambda x: isinstance(x, Point) or nest.is_scalar(x).
Predicates == {"is_scalar", "is_point", "point_or_scalar"}

\* The predicates has_max_depth returns: has_max_depth(0), has_max_depth(1),
\* has_max_depth(2), and
\* has_max_depth(1, lambda x: isinstance(x, Point) or nest.is_scalar(x)).
DepthPredicates ==
    {"has_max_depth(0)", "has_max_depth(1)", "has_max_depth(2)",
     "has_max_depth(1, point_or_scalar)"}

\* The depth and is_atomic arguments has_max_depth was called with.
Depth(q) ==
    CASE q = "has_max_depth(0)" -> 0
      [] q = "has_max_depth(1)" -> 1
      [] q = "has_max_depth(2)" -> 2
      [] q = "has_max_depth(1, point_or_scalar)" -> 1

Base(q) == IF q = "has_max_depth(1, point_or_scalar)" THEN "point_or_scalar" ELSE "is_scalar"

\* True, False
PyBool(b) == Val("bool", IF b THEN 1 ELSE 0, <<>>, <<>>)

RECURSIVE has_max_depth(_, _, _)

\* is_atomic(element), where it returns.
Atomic(is_atomic, element) ==
    CASE is_atomic = "is_scalar" -> is_scalar(element)
      [] is_atomic = "is_point" -> element.k = "nt"
      [] is_atomic = "point_or_scalar" -> element.k = "nt" \/ is_scalar(element)
      [] is_atomic \in DepthPredicates ->
            has_max_depth(Depth(is_atomic), Base(is_atomic), element) = PyBool(TRUE)

\* The exception is_atomic(element) raises, None where it returns.
AtomicError(is_atomic, element) ==
    IF is_atomic \in DepthPredicates
    THEN LET r == has_max_depth(Depth(is_atomic), Base(is_atomic), element)
         IN IF IsErr(r) THEN r ELSE None
    ELSE None

\* ------------------------------------------------------ child enumeration

_sorted_keys(mapping) == Sorted(mapping.ks)

_iter_attrs(element) == element.ch

\* list(_shallow_yield_from(structure, is_atomic)); iterating a value that is
\* no iterable raises TypeError.
_shallow_yield_from(structure, is_atomic) ==
    IF Atomic(is_atomic, structure) THEN List(<<structure>>)
    ELSE IF is_mapping(structure) THEN
        List([i \in 1..Len(structure.ks) |-> GetItem(structure, _sorted_keys(structure)[i])])
    ELSE IF is_attrs_object(structure) THEN List(_iter_attrs(structure))
    ELSE IF structure.k \in {"list", "tuple", "nt", "set"} THEN List(structure.ch)
    ELSE Raise("TypeError")

\* ---------------------------------------------------------- has_max_depth

RECURSIVE _has_max_depth_helper(_, _, _)
RECURSIVE _has_max_depth_each(_, _, _)

\* [_has_max_depth_helper(substructure, _depth) for substructure in ...]: the
\* list of the depths, or the first exception.
_has_max_depth_each(substructures, _depth, is_atomic) ==
    IF substructures = <<>> THEN List(<<>>)
    ELSE LET h == _has_max_depth_helper(Head(substructures), _depth, is_atomic)
         IN IF IsErr(h) THEN h
            ELSE LET t == _has_max_depth_each(Tail(substructures), _depth, is_atomic)
                 IN IF IsErr(t) THEN t ELSE List(<<h>> \o t.ch)

\* max(list): ValueError on the empty list.
Max(list) ==
    IF Len(list.ch) = 0 THEN Raise("ValueError")
    ELSE list.ch[CHOOSE i \in 1..Len(list.ch) : \A j \in 1..Len(list.ch) : list.ch[j].v <= list.ch[i].v]

_has_max_depth_helper(structure, _depth, is_atomic) ==
    IF Atomic(is_atomic, structure) THEN PyInt(_depth)
    ELSE LET substructures == _shallow_yield_from(structure, is_atomic)
         IN IF IsErr(substructures) THEN substructures
            ELSE LET depths == _has_max_depth_each(substructures.ch, _depth + 1, is_atomic)
                 IN IF IsErr(depths) THEN depths ELSE Max(depths)

\* has_max_depth(depth, is_atomic)(structure)
has_max_depth(depth, is_atomic, structure) ==
    LET _depth == _has_max_depth_helper(structure, 0, is_atomic)
    IN IF IsErr(_depth) THEN _depth ELSE PyBool(_depth.v <= depth)

\* ---------------------------------------------------------------- flatten

RECURSIVE _flatten_helper(_, _)
RECURSIVE _flatten_each(_, _)

\* The loop `for substructure in ...: _flatten_helper(substructure, ...)`:
\* the leaves appended, or the exception that ends it.
_flatten_each(substructures, is_atomic) ==
    IF substructures = <<>> THEN List(<<>>)
    ELSE LET h == _flatten_helper(Head(substructures), is_atomic)
         IN IF IsErr(h) THEN h
            ELSE LET t == _flatten_each(Tail(substructures), is_atomic)
                 IN IF IsErr(t) THEN t ELSE List(h.ch \o t.ch)

_flatten_helper(structure, is_atomic) ==
    IF structure.k = "none" THEN List(<<>>)
    ELSE IF IsErr(AtomicError(is_atomic, structure)) THEN AtomicError(is_atomic, structure)
    ELSE IF Atomic(is_atomic, structure) THEN List(<<structure>>)
    ELSE IF is_attrs_object(structure) THEN
        _flatten_each(_iter_attrs(structure), is_atomic)
    ELSE IF is_sequence(structure) \/ is_set(structure) THEN
        _flatten_each(structure.ch, is_atomic)
    ELSE IF is_mapping(structure) THEN
        _flatten_each([i \in 1..Len(structure.ks) |->
                          GetItem(structure, Sorted(structure.ks)[i])], is_atomic)
    ELSE Raise("ValueError")

flatten(structure, is_atomic) == _flatten_helper(structure, is_atomic)

\* ------------------------------------------------- shape reconstruction

\* dict(zip(keys, elements)), then the items in sorted-key order.
ZipDict(keys, elements) ==
    LET n == IF Len(keys) < Len(elements) THEN Len(keys) ELSE Len(elements)
    IN Dict(SubSeq(keys, 1, n), SubSeq(elements, 1, n))

\* type(structure)(*elements): a record class takes exactly its fields.
NewRecord(structure, elements) ==
    IF Len(elements) # (IF structure.k = "nt" THEN PointFields ELSE CoordinatesFields)
    THEN Raise("TypeError")
    ELSE Val(structure.k, 0, elements, <<>>)

\* elements is a Python list, or (from filter) a dict.
_shallow_structure_like(structure, elements, is_atomic) ==
    IF structure.k = "none" THEN None
    ELSE IF Atomic(is_atomic, structure) THEN
        (IF Len(elements.ch) = 0 THEN Raise("IndexError") ELSE elements.ch[1])
    ELSE IF is_namedtuple(structure) \/ is_attrs_object(structure) THEN
        NewRecord(structure, elements.ch)
    ELSE IF is_sequence(structure) \/ is_set(structure) THEN
        (IF structure.k = "set" THEN Set(elements.ch) ELSE Val(structure.k, 0, elements.ch, <<>>))
    ELSE IF is_mapping(structure) THEN
        LET items == IF ~is_mapping(elements)
                     THEN ZipDict(_sorted_keys(structure), elements.ch)
                     ELSE elements
        IN Dict(_sorted_keys(items),
                [i \in 1..Len(items.ks) |-> GetItem(items, _sorted_keys(items)[i])])
    ELSE None

\* -------------------------------------------------------------------- map

\* The func arguments of map: lambda x: x, lambda x: 0, lambda x: None,
\* lambda x: 7 - x if isinstance(x, int) else x, lambda x: [x].
MapFuncs == {"identity", "const", "none", "flip", "wrap"}

Apply(func, x) ==
    CASE func = "identity" -> x
      [] func = "const" -> PyInt(0)
      [] func = "none" -> None
      [] func = "flip" -> IF x.k = "int" THEN PyInt(7 - x.v) ELSE x
      [] func = "wrap" -> List(<<x>>)

RECURSIVE map(_, _, _)
RECURSIVE _map_each(_, _, _)

\* _map_each building its list back to front.
RECURSIVE _map_each_prepend(_, _, _)
_map_each_prepend(func, substructures, is_atomic) ==
    IF substructures = <<>> THEN List(<<>>)
    ELSE LET h == map(func, Head(substructures), is_atomic)
         IN IF IsErr(h) THEN h
            ELSE LET t == _map_each_prepend(func, Tail(substructures), is_atomic)
                 IN IF IsErr(t) THEN t ELSE List(t.ch \o <<h>>)

\* The comprehension [map(func, substructure, is_atomic) for substructure in ...].
_map_each(func, substructures, is_atomic) ==
    IF substructures = <<>> THEN List(<<>>)
    ELSE LET h == map(func, Head(substructures), is_atomic)
         IN IF IsErr(h) THEN h
            ELSE LET t == _map_each(func, Tail(substructures), is_atomic)
                 IN IF IsErr(t) THEN t ELSE List(<<h>> \o t.ch)

map(func, structure, is_atomic) ==
    IF structure.k = "none" THEN None
    ELSE IF Atomic(is_atomic, structure) THEN Apply(func, structure)
    ELSE IF is_attrs_object(structure) THEN
        LET mapped == _map_each(func, _iter_attrs(structure), is_atomic)
        IN IF IsErr(mapped) THEN mapped
           ELSE _shallow_structure_like(structure, mapped, is_atomic)
    ELSE IF is_sequence(structure) \/ is_set(structure) THEN
        LET mapped == _map_each(func, structure.ch, is_atomic)
        IN IF IsErr(mapped) THEN mapped
           ELSE _shallow_structure_like(structure, mapped, is_atomic)
    ELSE IF is_mapping(structure) THEN
        LET mapped == _map_each(func, [i \in 1..Len(structure.ks) |->
                          GetItem(structure, _sorted_keys(structure)[i])], is_atomic)
        IN IF IsErr(mapped) THEN mapped
           ELSE _shallow_structure_like(structure, mapped, is_atomic)
    ELSE Raise("ValueError")

\* ----------------------------------------------------------------- reduce

\* The func arguments of reduce: lambda x, y: x - y,
\* lambda x, y: x if isinstance(x, Point) else y, lambda x, y: y.
ReduceFuncs == {"sub", "keep_point", "last"}

Apply2(func, x, y) ==
    CASE func = "sub" -> IF x.k = "int" /\ y.k = "int" THEN PyInt(x.v - y.v)
                         ELSE Raise("TypeError")
      [] func = "keep_point" -> IF x.k = "nt" THEN x ELSE y
      [] func = "last" -> y

\* _reduce_loop calling func(element, reduced).
RECURSIVE _reduce_loop_swapped(_, _, _, _)
_reduce_loop_swapped(func, flat, i, acc) ==
    IF i > Len(flat) THEN acc
    ELSE LET r == Apply2(func, flat[i], acc.value)
         IN IF IsErr(r) THEN [value |-> r, calls |-> acc.calls + 1]
            ELSE _reduce_loop_swapped(func, flat, i + 1, [value |-> r, calls |-> acc.calls + 1])

RECURSIVE _reduce_loop(_, _, _, _)

\* The loop of reduce from element i on, reduced being bound: the value
\* returned or raised, and the calls of func made.
_reduce_loop(func, flat, i, acc) ==
    IF i > Len(flat) THEN acc
    ELSE LET r == Apply2(func, acc.value, flat[i])
         IN IF IsErr(r) THEN [value |-> r, calls |-> acc.calls + 1]
            ELSE _reduce_loop(func, flat, i + 1, [value |-> r, calls |-> acc.calls + 1])

\* [value, calls]: what reduce returns or raises, and how often it called func.
reduce(func, structure, is_atomic) ==
    IF structure.k = "none" THEN [value |-> None, calls |-> 0]
    ELSE LET flat == flatten(structure, is_atomic)
         IN IF IsErr(flat) THEN [value |-> flat, calls |-> 0]
            ELSE IF Len(flat.ch) = 0
                 THEN [value |-> Raise("UnboundLocalError"), calls |-> 0]
            ELSE _reduce_loop(func, flat.ch, 2, [value |-> flat.ch[1], calls |-> 0])

\* ----------------------------------------------------------------- filter

\* The func arguments of filter: lambda x: True, lambda x: False,
\* lambda x: x == 1, lambda x: x != 1.
FilterFuncs == {"true", "false", "eq1", "ne1"}

Test(func, x) ==
    CASE func = "true" -> TRUE
      [] func = "false" -> FALSE
      [] func = "eq1" -> x = PyInt(1)
      [] func = "ne1" -> x # PyInt(1)

\* The placeholder class of filter.
FALSEY == Val("FALSEY", 0, <<>>, <<>>)

RECURSIVE _filter_helper(_, _, _, _)
RECURSIVE _filter_each(_, _, _, _)

\* _filter_helper of every substructure, in order.
_filter_each(func, substructures, is_atomic, keep) ==
    [i \in 1..Len(substructures) |-> _filter_helper(func, substructures[i], is_atomic, keep)]

\* Every item of seq, the FALSEY ones too.
WithFalsey(seq) == seq

\* The items of seq that are not FALSEY.
RECURSIVE NotFalsey(_)
NotFalsey(seq) ==
    IF seq = <<>> THEN <<>>
    ELSE IF Head(seq) = FALSEY THEN NotFalsey(Tail(seq))
    ELSE <<Head(seq)>> \o NotFalsey(Tail(seq))

\* The keys whose filtered value is not FALSEY.
RECURSIVE KeptKeys(_, _)
KeptKeys(keys, filtered) ==
    IF keys = <<>> THEN <<>>
    ELSE IF Head(filtered) = FALSEY THEN KeptKeys(Tail(keys), Tail(filtered))
    ELSE <<Head(keys)>> \o KeptKeys(Tail(keys), Tail(filtered))

\* The record kept whatever keep_structure.
_keep_record_always(keep, filtered_list) == TRUE

\* `if keep_structure or not all(element is FALSEY for element in filtered_list)`
_keep_record(keep, filtered_list) ==
    keep \/ ~(\A i \in 1..Len(filtered_list) : filtered_list[i] = FALSEY)

\* The container kept whatever keep_structure.
_keep_container_always(keep, filtered) == TRUE

\* `if keep_structure or filtered_list`, `if keep_structure or filtered_dict`
_keep_container(keep, filtered) == keep \/ filtered # <<>>

_filter_helper(func, structure, is_atomic, keep) ==
    IF structure.k = "none" THEN FALSEY
    ELSE IF Atomic(is_atomic, structure) THEN
        (IF Test(func, structure) THEN structure ELSE FALSEY)
    ELSE IF is_attrs_object(structure) \/ is_namedtuple(structure) THEN
        LET filtered_list == _filter_each(func, _shallow_yield_from(structure, "is_scalar").ch,
                                          is_atomic, keep)
        IN IF _keep_record(keep, filtered_list)
           THEN _shallow_structure_like(structure,
                    List([i \in 1..Len(filtered_list) |->
                            IF filtered_list[i] = FALSEY THEN None ELSE filtered_list[i]]),
                    "is_scalar")
           ELSE FALSEY
    ELSE IF is_sequence(structure) \/ is_set(structure) THEN
        LET filtered_list == NotFalsey(_filter_each(func,
                                 _shallow_yield_from(structure, "is_scalar").ch, is_atomic, keep))
        IN IF _keep_container(keep, filtered_list)
           THEN _shallow_structure_like(structure, List(filtered_list), "is_scalar")
           ELSE FALSEY
    ELSE IF is_mapping(structure) THEN
        LET keys == _sorted_keys(structure)
            filtered == _filter_each(func, [i \in 1..Len(keys) |-> GetItem(structure, keys[i])],
                                     is_atomic, keep)
            filtered_dict == Dict(KeptKeys(keys, filtered), NotFalsey(filtered))
        IN IF _keep_container(keep, filtered_dict.ks)
           THEN _shallow_structure_like(structure, filtered_dict, "is_scalar")
           ELSE FALSEY
    ELSE None

filter(func, structure, keep, is_atomic) ==
    LET filtered_structure == _filter_helper(func, structure, is_atomic, keep)
    IN IF filtered_structure = FALSEY THEN None ELSE filtered_structure

\* -------------------------------------------------- assert_same_structure

RECURSIVE assert_same_structure(_, _, _)
RECURSIVE _assert_each(_, _, _)

\* The loop over zip(substructures1, substructures2): the first exception ends it.
_assert_each(substructures1, substructures2, is_atomic) ==
    IF substructures1 = <<>> \/ substructures2 = <<>> THEN None
    ELSE LET h == assert_same_structure(Head(substructures1), Head(substructures2), is_atomic)
         IN IF IsErr(h) THEN h
            ELSE _assert_each(Tail(substructures1), Tail(substructures2), is_atomic)

\* None when the call returns, else the exception raised.
assert_same_structure(structure1, structure2, is_atomic) ==
    IF Atomic(is_atomic, structure1) # Atomic(is_atomic, structure2) THEN Raise("AssertionError")
    ELSE IF Atomic(is_atomic, structure1) THEN None
    ELSE IF structure1.k # structure2.k THEN Raise("AssertionError")
    ELSE IF is_mapping(structure1) /\ _sorted_keys(structure1) # _sorted_keys(structure2)
         THEN Raise("AssertionError")
    ELSE LET substructures1 == _shallow_yield_from(structure1, is_atomic)
             substructures2 == _shallow_yield_from(structure2, is_atomic)
         IN IF IsErr(substructures1) THEN substructures1
            ELSE IF IsErr(substructures2) THEN substructures2
            ELSE IF Len(substructures1.ch) # Len(substructures2.ch) THEN Raise("AssertionError")
            ELSE _assert_each(substructures1.ch, substructures2.ch, is_atomic)

\* --------------------------------------------------------- pack_list_into

RECURSIVE _pack_into_helper(_, _, _, _)
RECURSIVE _pack_each(_, _, _, _, _)

\* The loop of _pack_into_helper over the substructures: [index, packed], packed
\* the Python list packed_list or the exception raised.
_pack_each(substructures, flat_list, is_atomic, index, packed_list) ==
    IF substructures = <<>> THEN [index |-> index, packed |-> List(packed_list)]
    ELSE IF Atomic(is_atomic, Head(substructures)) THEN
        (IF index >= Len(flat_list) THEN [index |-> index, packed |-> Raise("IndexError")]
         ELSE _pack_each(Tail(substructures), flat_list, is_atomic, index + 1,
                         Append(packed_list, flat_list[index + 1])))
    ELSE LET r == _pack_into_helper(Head(substructures), flat_list, is_atomic, index)
         IN IF IsErr(r.packed) THEN r
            ELSE _pack_each(Tail(substructures), flat_list, is_atomic, r.index,
                            Append(packed_list, r.packed))

\* [index, packed]: the pair returned, packed being the exception when one is raised.
_pack_into_helper(structure, flat_list, is_atomic, index) ==
    LET substructures == _shallow_yield_from(structure, is_atomic)
    IN IF IsErr(substructures) THEN [index |-> index, packed |-> substructures]
       ELSE LET r == _pack_each(substructures.ch, flat_list, is_atomic, index, <<>>)
            IN IF IsErr(r.packed) THEN r
               ELSE [index |-> r.index,
                     packed |-> _shallow_structure_like(structure, r.packed, is_atomic)]

\* flat_list is the sequence of the Python list's items.
pack_list_into(structure, flat_list, is_atomic) ==
    IF structure.k = "none" THEN None
    ELSE _pack_into_helper(structure, flat_list, is_atomic, 0).packed

\* ------------------------------------------------------------ input space

RECURSIVE Trees(_)
RECURSIVE Forests(_, _)

\* The sequences of len structures that have n nodes together.
Forests(len, n) ==
    IF len = 0 THEN (IF n = 0 THEN {<<>>} ELSE {})
    ELSE UNION {{<<t>> \o f : t \in Trees(k), f \in Forests(len - 1, n - k)} :
                k \in 1..(n - len + 1)}

\* The key sequences of a dict of len items: every insertion order.
KeySeqs(len) == {ks \in [1..len -> Keys] : \A i, j \in 1..len : ks[i] = ks[j] => i = j}

\* The elements of sets, of at most n nodes: ints and tuples of ints.
Elements(n) ==
    {PyInt(i) : i \in Ints}
    \cup UNION {{Tuple(ch) : ch \in [1..len -> {PyInt(i) : i \in Ints}]} : len \in 0..(n - 1)}

\* The nodes of a set of such elements.
RECURSIVE Weight(_)
Weight(S) ==
    IF S = {} THEN 0
    ELSE LET x == CHOOSE y \in S : TRUE
         IN 1 + Len(x.ch) + Weight(S \ {x})

\* The elements of S in some order.
RECURSIVE SeqOf(_)
SeqOf(S) ==
    IF S = {} THEN <<>>
    ELSE LET x == CHOOSE y \in S : TRUE
         IN <<x>> \o SeqOf(S \ {x})

\* The structures of exactly n nodes.
Trees(n) ==
    IF n = 1 THEN {None} \cup {PyInt(i) : i \in Ints}
                  \cup {List(<<>>), Tuple(<<>>), Set(<<>>), Dict(<<>>, <<>>)}
    ELSE UNION {{List(f) : f \in Forests(len, n - 1)} : len \in 1..(n - 1)}
         \cup UNION {{Tuple(f) : f \in Forests(len, n - 1)} : len \in 1..(n - 1)}
         \cup UNION {{Dict(ks, f) : ks \in KeySeqs(len), f \in Forests(len, n - 1)} :
                     len \in 1..Cardinality(Keys)}
         \cup {Set(SeqOf(S)) : S \in {T \in SUBSET Elements(n - 1) : Weight(T) = n - 1}}
         \cup {Point(f) : f \in Forests(PointFields, n - 1)}
         \cup {Coordinates(f) : f \in Forests(CoordinatesFields, n - 1)}

\* The structures of the tests and docstrings, with the ints of 0..7 and the
\* keys 'a', 'b', ... numbered 1, 2, ...
\* (1, [2, {3, 4, 5}, {'a': 6, 'b': 7}, Coordinates(Point(0, 1), Point(2, 3))])
FlattenExample ==
    Tuple(<<PyInt(1),
            List(<<PyInt(2), Set(<<PyInt(3), PyInt(4), PyInt(5)>>),
                   Dict(<<1, 2>>, <<PyInt(6), PyInt(7)>>),
                   Coordinates(<<Point(<<PyInt(0), PyInt(1)>>),
                                 Point(<<PyInt(2), PyInt(3)>>)>>)>>)>>)

\* {'c': [3, 4, {5, 6}], 'a': 1, 'b': 2, 'd': Point(7, 0), 'e': Coordinates(1, 2)}
MapExample ==
    Dict(<<3, 1, 2, 4, 5>>,
         <<List(<<PyInt(3), PyInt(4), Set(<<PyInt(5), PyInt(6)>>)>>), PyInt(1), PyInt(2),
           Point(<<PyInt(7), PyInt(0)>>), Coordinates(<<PyInt(1), PyInt(2)>>)>>)

\* {'a': [1, 2], 'b': (3, 4, {'c': 5})}
FilterExample ==
    Dict(<<1, 2>>, <<List(<<PyInt(1), PyInt(2)>>),
                     Tuple(<<PyInt(3), PyInt(4), Dict(<<3>>, <<PyInt(5)>>)>>)>>)

\* [Point(1, 2), (Point(3, 4), Point(5, 6)), {'a': Point(7, 0)}]
AtomicExample ==
    List(<<Point(<<PyInt(1), PyInt(2)>>),
           Tuple(<<Point(<<PyInt(3), PyInt(4)>>), Point(<<PyInt(5), PyInt(6)>>)>>),
           Dict(<<1>>, <<Point(<<PyInt(7), PyInt(0)>>)>>)>>)

\* [Point(1, [2]), None, Coordinates(None, (1, 2))]
\* {(1,), (1, 2)}
TupleSetExample == Set(<<Tuple(<<PyInt(1)>>), Tuple(<<PyInt(1), PyInt(2)>>)>>)

RecordExample ==
    List(<<Point(<<PyInt(1), List(<<PyInt(2)>>)>>), None,
           Coordinates(<<None, Tuple(<<PyInt(1), PyInt(2)>>)>>)>>)

Examples ==
    {FlattenExample, MapExample, FilterExample, AtomicExample, RecordExample, TupleSetExample}

\* {'a': 1, 'b': [2, 3]}, {'b': [6, 5], 'a': 7}, {'a': 7, 'b': [6, 5, 4]},
\* ([1, 2], [3, 4]), ([1], [2]), (Point(1, 2), None), (Point(3, [4]), 5)
PairExamples ==
    {Dict(<<1, 2>>, <<PyInt(1), List(<<PyInt(2), PyInt(3)>>)>>),
     Dict(<<2, 1>>, <<List(<<PyInt(6), PyInt(5)>>), PyInt(7)>>),
     Dict(<<1, 2>>, <<PyInt(7), List(<<PyInt(6), PyInt(5), PyInt(4)>>)>>),
     Tuple(<<List(<<PyInt(1), PyInt(2)>>), List(<<PyInt(3), PyInt(4)>>)>>),
     Tuple(<<List(<<PyInt(1)>>), List(<<PyInt(2)>>)>>),
     Tuple(<<Point(<<PyInt(1), PyInt(2)>>), None>>),
     Tuple(<<Point(<<PyInt(3), List(<<PyInt(4)>>)>>), PyInt(5)>>)}

Structures == UNION {Trees(n) : n \in 1..MaxNodes} \cup Examples

PairStructures == UNION {Trees(n) : n \in 1..MaxPairNodes} \cup PairExamples

\* The Python list [3, 4, ...] of n items.
Numbered(n) == List([i \in 1..n |-> PyInt(2 + i)])

\* The flat_list arguments of pack_list_into: the flattening of the structure
\* itself, and the lists [3, 4, ...] of up to MaxFlat items.
FlatLists(s, p) ==
    {Numbered(n) : n \in 0..MaxFlat}
    \cup (IF IsErr(flatten(s, p)) THEN {} ELSE {flatten(s, p)})


\* ------------------------------------------------------------------ calls

VARIABLES
    structure,       \* the structure argument of the call
    arg,             \* pack_list_into's flat_list, assert_same_structure's structure2
    is_atomic,       \* the is_atomic argument
    func,            \* the func argument
    keep_structure,  \* filter's keep_structure argument
    op,              \* the function called, "" before the call
    result,          \* what the call returned or raised
    calls            \* how often reduce called func

vars == <<structure, arg, is_atomic, func, keep_structure, op, result, calls, hash_order>>

Init ==
    /\ hash_order \in HashOrders
    /\ structure \in Structures
    /\ arg = None
    /\ is_atomic = "is_scalar"
    /\ func = ""
    /\ keep_structure = TRUE
    /\ op = ""
    /\ result = None
    /\ calls = 0

\* The call flatten(structure, is_atomic=p).
Flatten ==
    /\ op = ""
    /\ \E p \in Predicates :
        /\ op' = "flatten"
        /\ is_atomic' = p
        /\ result' = flatten(structure, p)
        /\ UNCHANGED <<structure, arg, func, keep_structure, calls, hash_order>>

\* The call map(f, structure, is_atomic=p).
Map ==
    /\ op = ""
    /\ \E p \in Predicates, f \in MapFuncs :
        /\ op' = "map"
        /\ is_atomic' = p
        /\ func' = f
        /\ result' = map(f, structure, p)
        /\ UNCHANGED <<structure, arg, keep_structure, calls, hash_order>>

\* The call reduce(f, structure, is_atomic=p).
Reduce ==
    /\ op = ""
    /\ \E p \in Predicates, f \in ReduceFuncs :
        /\ op' = "reduce"
        /\ is_atomic' = p
        /\ func' = f
        /\ result' = reduce(f, structure, p).value
        /\ calls' = reduce(f, structure, p).calls
        /\ UNCHANGED <<structure, arg, keep_structure, hash_order>>

\* The call filter(f, structure, keep_structure=keep, is_atomic=p).
Filter ==
    /\ op = ""
    /\ \E p \in Predicates, f \in FilterFuncs, keep \in BOOLEAN :
        /\ op' = "filter"
        /\ is_atomic' = p
        /\ func' = f
        /\ keep_structure' = keep
        /\ result' = filter(f, structure, keep, p)
        /\ UNCHANGED <<structure, arg, calls, hash_order>>

\* The call assert_same_structure(structure, structure2, is_atomic=p).
AssertSameStructure ==
    /\ op = ""
    /\ \E p \in Predicates, structure2 \in PairStructures :
        /\ op' = "assert_same_structure"
        /\ is_atomic' = p
        /\ arg' = structure2
        /\ result' = assert_same_structure(structure, structure2, p)
        /\ UNCHANGED <<structure, func, keep_structure, calls, hash_order>>

\* The call pack_list_into(structure, flat_list, is_atomic=p).
PackListInto ==
    /\ op = ""
    /\ \E p \in Predicates :
        \E flat_list \in FlatLists(structure, p) :
            /\ op' = "pack_list_into"
            /\ is_atomic' = p
            /\ arg' = flat_list
            /\ result' = pack_list_into(structure, flat_list.ch, p)
            /\ UNCHANGED <<structure, func, keep_structure, calls, hash_order>>

Next ==
    \/ Flatten
    \/ Map
    \/ Reduce
    \/ Filter
    \/ PackListInto

\* One call of flatten, map, reduce, filter or pack_list_into on a structure.
Spec == Init /\ [][Next]_vars

InitPair ==
    /\ hash_order \in HashOrders
    /\ structure \in PairStructures
    /\ arg = None
    /\ is_atomic = "is_scalar"
    /\ func = ""
    /\ keep_structure = TRUE
    /\ op = ""
    /\ result = None
    /\ calls = 0

NextPair ==
    \/ AssertSameStructure

\* One call of assert_same_structure on a pair of structures.
SpecPair == InitPair /\ [][NextPair]_vars

\* The call has_max_depth(depth, base)(structure).
HasMaxDepth ==
    /\ op = ""
    /\ \E q \in DepthPredicates :
        /\ op' = "has_max_depth"
        /\ is_atomic' = q
        /\ result' = has_max_depth(Depth(q), Base(q), structure)
        /\ UNCHANGED <<structure, arg, func, keep_structure, calls, hash_order>>

\* The call flatten(structure, is_atomic=has_max_depth(depth, base)).
FlattenMaxDepth ==
    /\ op = ""
    /\ \E q \in DepthPredicates :
        /\ op' = "flatten"
        /\ is_atomic' = q
        /\ result' = flatten(structure, q)
        /\ UNCHANGED <<structure, arg, func, keep_structure, calls, hash_order>>

NextDepth ==
    \/ HasMaxDepth
    \/ FlattenMaxDepth

\* One call of a has_max_depth predicate, or of flatten with one, on a structure.
SpecDepth == Init /\ [][NextDepth]_vars

\* ----------------------------------------------------------------- claims

Containers == {"list", "tuple", "set", "dict", "nt", "attrs"}

\* A structure in the sense of the claims: at every position reached there is
\* None, a value atomic under p, or a sequence, set, mapping or record.
RECURSIVE WellFormed(_, _)
WellFormed(s, p) ==
    \/ s.k = "none"
    \/ Atomic(p, s)
    \/ /\ s.k \in Containers
       /\ \A i \in 1..Len(s.ch) : WellFormed(s.ch[i], p)

\* The call made is op on a structure well formed under its is_atomic.
Called(name) == op = name /\ WellFormed(structure, is_atomic)

\* C1, for the default is_atomic: pack_list_into(s, flatten(s)) returns without
\* error a structure r for which assert_same_structure(s, r) succeeds and whose
\* leaves are those of s, position by position.
C1_RoundTrip ==
    (Called("pack_list_into") /\ is_atomic = "is_scalar" /\ arg = flatten(structure, is_atomic))
        => /\ ~IsErr(result)
           /\ assert_same_structure(structure, result, is_atomic) = None
           /\ flatten(result, is_atomic) = arg

\* [f(x) for x in leaves]
ApplyEach(f, leaves) == [i \in 1..Len(leaves) |-> Apply(f, leaves[i])]

\* C2 as stated: flatten(map(f, s, p), p) is [f(x) for x in flatten(s, p)], for
\* every f, s and p.
C2_MapFlattenAny ==
    Called("map")
        => /\ ~IsErr(result)
           /\ flatten(result, is_atomic) = List(ApplyEach(func, flatten(structure, is_atomic).ch))

\* f returns, for every leaf of the structure, a value other than None that is
\* atomic under p.
ReturnsLeaves(f, s, p) ==
    \A x \in Range(flatten(s, p).ch) : Apply(f, x).k # "none" /\ Atomic(p, Apply(f, x))

\* In every set the traversal enters, the mapped elements are distinct and the
\* new set iterates them in the order of the elements they come from.
RECURSIVE KeepsSets(_, _, _)
KeepsSets(f, s, p) ==
    \/ s.k = "none"
    \/ Atomic(p, s)
    \/ /\ \A i \in 1..Len(s.ch) : KeepsSets(f, s.ch[i], p)
       /\ s.k = "set" =>
            LET mapped == [i \in 1..Len(s.ch) |-> map(f, s.ch[i], p)]
            IN Set(mapped) = Val("set", 0, mapped, <<>>)

\* C2 as amended: the equation holds when f returns non-None values atomic
\* under p and every set keeps its elements' number and order under the mapping.
C2_MapFlatten ==
    (Called("map") /\ ReturnsLeaves(func, structure, is_atomic)
                   /\ KeepsSets(func, structure, is_atomic))
        => /\ ~IsErr(result)
           /\ flatten(result, is_atomic) = List(ApplyEach(func, flatten(structure, is_atomic).ch))

\* Mapping {'a': [1, 2], 'b': (3, 4, {'c': 5})} with 7 - x gives the leaves 6, 5, 4, 3, 2.
C2_Witness ==
    /\ Called("map") /\ func = "flip" /\ structure = FilterExample
    /\ ReturnsLeaves(func, structure, is_atomic) /\ KeepsSets(func, structure, is_atomic)
    /\ flatten(result, is_atomic).ch = <<PyInt(6), PyInt(5), PyInt(4), PyInt(3), PyInt(2)>>

\* The value with every dict rebuilt in ascending key order: two values are
\* equal in Python, with equal types, when these are equal.
RECURSIVE Normal(_)
Normal(x) ==
    IF x.k = "dict"
    THEN Dict(Sorted(x.ks), [i \in 1..Len(x.ks) |-> Normal(GetItem(x, Sorted(x.ks)[i]))])
    ELSE Val(x.k, x.v, [i \in 1..Len(x.ch) |-> Normal(x.ch[i])], x.ks)

\* C3: map(lambda x: x, s, p) returns a structure r for which
\* assert_same_structure(s, r, p) succeeds, with the types of the containers
\* and the leaves of s.
C3_MapIdentity ==
    (Called("map") /\ func = "identity")
        => /\ ~IsErr(result)
           /\ assert_same_structure(structure, result, is_atomic) = None
           /\ Normal(result) = Normal(structure)

\* The paths to the leaves of s: a step is the position of an item, field or
\* set element, or the key of a dict's value.
RECURSIVE LeafPaths(_, _)
LeafPaths(s, p) ==
    IF s.k = "none" THEN {}
    ELSE IF Atomic(p, s) THEN {<<>>}
    ELSE UNION {{<<IF s.k = "dict" THEN s.ks[i] ELSE i>> \o q : q \in LeafPaths(s.ch[i], p)} :
                i \in 1..Len(s.ch)}

\* The value at the end of a path.
RECURSIVE At(_, _)
At(s, path) ==
    IF path = <<>> THEN s
    ELSE At(IF s.k = "dict" THEN GetItem(s, Head(path)) ELSE s.ch[Head(path)], Tail(path))

\* Path a comes before path b: at the first step where they part, a's is smaller.
Before(a, b) ==
    \E j \in 1..Len(a) :
        /\ j <= Len(b)
        /\ \A i \in 1..(j - 1) : a[i] = b[i]
        /\ a[j] < b[j]

RECURSIVE InOrder(_)
InOrder(paths) ==
    IF paths = {} THEN <<>>
    ELSE LET first == CHOOSE a \in paths : \A b \in paths \ {a} : Before(a, b)
         IN <<first>> \o InOrder(paths \ {first})

\* C4: flatten(s, p) is the list of the leaves of s in depth-first order, the
\* children of a sequence or record taken by position and the values of a
\* mapping by ascending key, whatever its insertion order; None contributes
\* nothing and an atomic value itself.
C4_FlattenOrder ==
    Called("flatten")
        => LET paths == InOrder(LeafPaths(structure, is_atomic))
           IN result = List([i \in 1..Len(paths) |-> At(structure, paths[i])])

\* A dict built as {2: y, 1: x} flattens to [x, y].
C4_Witness ==
    /\ Called("flatten")
    /\ structure.k = "dict" /\ structure.ks = <<2, 1>>
    /\ structure.ch[1] = PyInt(2) /\ structure.ch[2] = PyInt(1)
    /\ result = List(<<PyInt(1), PyInt(2)>>)

\* C5: reduce returns None, raising nothing, when the structure is None or
\* has no leaves.
C5_ReduceEmpty ==
    (Called("reduce") /\ flatten(structure, is_atomic) = List(<<>>))
        => result = None

\* func(... func(func(l0, l1), l2) ..., ln), an exception of func ending it.
RECURSIVE FoldLeft(_, _)
FoldLeft(f, leaves) ==
    IF Len(leaves) = 1 THEN leaves[1]
    ELSE LET inner == FoldLeft(f, SubSeq(leaves, 1, Len(leaves) - 1))
         IN IF IsErr(inner) THEN inner ELSE Apply2(f, inner, leaves[Len(leaves)])

\* C6: on a structure with at least one leaf reduce returns the left fold of
\* func over the leaves, seeded with the first; with one leaf it returns the
\* leaf and never calls func.
C6_ReduceFold ==
    (Called("reduce") /\ Len(flatten(structure, is_atomic).ch) >= 1)
        => LET leaves == flatten(structure, is_atomic).ch
           IN /\ result = FoldLeft(func, leaves)
              /\ Len(leaves) = 1 => (result = leaves[1] /\ calls = 0)

\* reduce(lambda x, y: x - y, {'a': [1, 2], 'b': (3, 4, {'c': 5})}) is
\* (((1 - 2) - 3) - 4) - 5, in four calls.
C6_Witness ==
    /\ Called("reduce") /\ func = "sub" /\ structure = FilterExample
    /\ result = PyInt(0 - 13) /\ calls = 4

\* A container of the traversal: neither None nor atomic under p.
IsContainer(x, p) == x.k # "none" /\ ~Atomic(p, x)

\* Some leaf of x satisfies f.
Survives(f, x, p) == \E leaf \in Range(flatten(x, p).ch) : Test(f, leaf)

\* The children of a container in enumeration order.
Children(x) == Normal(x).ch

\* The containers of x without its leaves: a sequence or set keeps its
\* containers in order, a mapping the keys of its containers, a record its
\* fields with None for a leaf. With deep = FALSE the elements of a set are
\* left out.
RECURSIVE Skeleton(_, _, _)
Skeleton(x, p, deep) ==
    IF x.k \in {"nt", "attrs"} THEN
        Val(x.k, 0, [i \in 1..Len(x.ch) |->
                        IF IsContainer(x.ch[i], p) THEN Skeleton(x.ch[i], p, deep) ELSE None], <<>>)
    ELSE IF x.k = "dict" THEN
        LET keys == SelectSeq(Sorted(x.ks), LAMBDA key : IsContainer(GetItem(x, key), p))
        IN Dict(keys, [i \in 1..Len(keys) |-> Skeleton(GetItem(x, keys[i]), p, deep)])
    ELSE IF x.k = "set" /\ ~deep THEN Val("set", 0, <<>>, <<>>)
    ELSE LET inner == SelectSeq(x.ch, LAMBDA c : IsContainer(c, p))
         IN Val(x.k, 0, [i \in 1..Len(inner) |-> Skeleton(inner[i], p, deep)], <<>>)

\* The sequences, sets and mappings of x that hold a leaf satisfying f.
RECURSIVE Surviving(_, _, _, _)
Surviving(f, x, p, deep) ==
    IF ~IsContainer(x, p) \/ (x.k = "set" /\ ~deep /\ ~Survives(f, x, p)) THEN 0
    ELSE (IF x.k \in {"list", "tuple", "set", "dict"} /\ Survives(f, x, p) THEN 1 ELSE 0)
         + (IF x.k = "set" /\ ~deep THEN 0
            ELSE LET counts == [i \in 1..Len(x.ch) |-> Surviving(f, x.ch[i], p, deep)]
                     sum[i \in 0..Len(counts)] == IF i = 0 THEN 0 ELSE sum[i - 1] + counts[i]
                 IN sum[Len(counts)])

\* No sequence, set or mapping of x is empty.
RECURSIVE NoEmpty(_, _)
NoEmpty(x, p) ==
    \/ ~IsContainer(x, p)
    \/ /\ x.k \in {"list", "tuple", "set", "dict"} => x.ch # <<>>
       /\ \A i \in 1..Len(x.ch) : NoEmpty(x.ch[i], p)

\* The keep_structure flag, the elements of sets counted or not.
KeepStructure(deep) ==
    Called("filter") =>
        /\ structure.k = "none" => result = None
        /\ Atomic(is_atomic, structure) /\ structure.k # "none" =>
                result = (IF Test(func, structure) THEN structure ELSE None)
        /\ IsContainer(structure, is_atomic) /\ keep_structure =>
                Skeleton(result, is_atomic, deep) = Skeleton(structure, is_atomic, deep)
        /\ IsContainer(structure, is_atomic) /\ ~keep_structure =>
                /\ NoEmpty(result, is_atomic)
                /\ ~Survives(func, structure, is_atomic) => result = None
                /\ Surviving("true", result, is_atomic, deep)
                       = Surviving(func, structure, is_atomic, deep)

\* C7 as stated: with keep_structure=True every sequence, set and mapping of
\* the input is in the result, at its position and of its type; with
\* keep_structure=False those left without a surviving leaf are removed, up to
\* the root, which becomes None; a rejected atomic root yields None.
C7_KeepStructureAny == KeepStructure(TRUE)

\* C7 as amended: the same of the sequences, sets and mappings that are not
\* elements of a set; the elements of a set that filter to equal values are
\* one element of the new set.
C7_KeepStructure == KeepStructure(FALSE)

\* filter(lambda x: x == 1, [Point(1, [2]), None, Coordinates(None, (1, 2))],
\* keep_structure=False) is [Point(1, None), Coordinates(None, (1,))], and
\* with keep_structure=True [Point(1, []), Coordinates(None, (1,))].
C7_Witness ==
    /\ Called("filter") /\ func = "eq1" /\ structure = RecordExample
    /\ is_atomic = "is_scalar"
    /\ \/ /\ ~keep_structure
          /\ result = List(<<Point(<<PyInt(1), None>>),
                             Coordinates(<<None, Tuple(<<PyInt(1)>>)>>)>>)
       \/ /\ keep_structure
          /\ result = List(<<Point(<<PyInt(1), List(<<>>)>>),
                             Coordinates(<<None, Tuple(<<PyInt(1)>>)>>)>>)

\* The records of x that the traversal enters, in depth-first order, those
\* inside sets left out.
RECURSIVE RecordsIn(_, _)
RecordsIn(x, p) ==
    IF ~IsContainer(x, p) \/ x.k = "set" THEN <<>>
    ELSE LET inner == [i \in 1..Len(x.ch) |-> RecordsIn(Children(x)[i], p)]
             all[i \in 0..Len(inner)] == IF i = 0 THEN <<>> ELSE all[i - 1] \o inner[i]
         IN (IF x.k \in {"nt", "attrs"} THEN <<x>> ELSE <<>>) \o all[Len(inner)]

\* Record got is record rec filtered: the same class and fields, a rejected
\* leaf or a dropped container replaced by None, the others in their places.
FieldsFiltered(rec, got, f, keep, p) ==
    /\ got.k = rec.k
    /\ Len(got.ch) = Len(rec.ch)
    /\ \A i \in 1..Len(rec.ch) :
         i <= Len(got.ch) =>
            IF IsContainer(rec.ch[i], p)
            THEN IF keep \/ Survives(f, rec.ch[i], p)
                 THEN got.ch[i].k = rec.ch[i].k
                 ELSE got.ch[i] = None
            ELSE got.ch[i] = (IF rec.ch[i].k # "none" /\ Test(f, rec.ch[i])
                              THEN rec.ch[i] ELSE None)

\* The records of the result are the records recs of the input, filtered.
RecordsFiltered(recs) ==
    LET got == RecordsIn(result, is_atomic)
    IN /\ Len(got) = Len(recs)
       /\ \A j \in 1..Len(recs) :
            j <= Len(got) =>
                FieldsFiltered(recs[j], got[j], func, keep_structure, is_atomic)

RECURSIVE Matching(_, _, _)
Matching(a, b, p) ==
    IF Atomic(p, a) \/ Atomic(p, b) THEN Atomic(p, a) /\ Atomic(p, b)
    ELSE /\ a.k = b.k
         /\ a.k = "dict" => Sorted(a.ks) = Sorted(b.ks)
         /\ Len(a.ch) = Len(b.ch)
         /\ \A i \in 1..Len(a.ch) :
                i <= Len(b.ch) => Matching(Children(a)[i], Children(b)[i], p)

\* C9: assert_same_structure(a, b, p) returns when the structures match and
\* raises AssertionError when they do not, and does for (b, a) what it does
\* for (a, b).
C9_SameStructure ==
    (Called("assert_same_structure") /\ WellFormed(arg, is_atomic))
        => /\ result = (IF Matching(structure, arg, is_atomic)
                        THEN None ELSE Raise("AssertionError"))
           /\ assert_same_structure(arg, structure, is_atomic) = result

\* C10, for the default is_atomic: pack_list_into raises an error when flat_list
\* is shorter than flatten(s); when flat_list is longer it returns what it
\* returns for the first len(flatten(s)) elements alone.
C10_PackArity ==
    (Called("pack_list_into") /\ is_atomic = "is_scalar")
        => LET leaves == Len(flatten(structure, is_atomic).ch)
           IN /\ Len(arg.ch) < leaves => IsErr(result)
              /\ Len(arg.ch) > leaves =>
                    /\ ~IsErr(result)
                    /\ result = pack_list_into(structure, SubSeq(arg.ch, 1, leaves), is_atomic)

\* The nesting depth of x: 0 for a value atomic under base, else one more than
\* the deepest child, 1 for an empty container.
RECURSIVE NestingDepth(_, _)
NestingDepth(x, base) ==
    IF Atomic(base, x) THEN 0
    ELSE IF Len(Children(x)) = 0 THEN 1
    ELSE LET d == [i \in 1..Len(Children(x)) |-> NestingDepth(Children(x)[i], base)]
         IN 1 + d[CHOOSE i \in 1..Len(d) : \A j \in 1..Len(d) : d[j] <= d[i]]

\* The maximal substructures of x of nesting depth <= depth, in traversal
\* order; None contributes nothing.
RECURSIVE Shallowest(_, _, _)
Shallowest(x, depth, base) ==
    IF x.k = "none" THEN <<>>
    ELSE IF NestingDepth(x, base) <= depth THEN <<x>>
    ELSE LET c == Children(x)
             F[i \in 0..Len(c)] ==
                 IF i = 0 THEN <<>> ELSE F[i - 1] \o Shallowest(c[i], depth, base)
         IN F[Len(c)]

\* C11: has_max_depth(depth, base)(x) returns True exactly when the nesting
\* depth of x is <= depth (an empty container has depth 1), without raising,
\* and flatten(s, has_max_depth(depth, base)) returns the maximal substructures
\* of s of depth <= depth, in traversal order.
C11_HasMaxDepth ==
    /\ op = "has_max_depth" =>
           result = PyBool(NestingDepth(structure, Base(is_atomic)) <= Depth(is_atomic))
    /\ (op = "flatten" /\ is_atomic \in DepthPredicates) =>
           result = List(Shallowest(structure, Depth(is_atomic), Base(is_atomic)))

\* The traversal of s under p reaches a value that p reports non-atomic and
\* that is not None, a sequence, a set, a mapping or a record.
RECURSIVE ReachesMalformed(_, _)
ReachesMalformed(s, p) ==
    IF s.k = "none" \/ Atomic(p, s) THEN FALSE
    ELSE IF s.k \notin Containers THEN TRUE
    ELSE \E i \in 1..Len(s.ch) : ReachesMalformed(s.ch[i], p)

\* C12: a call of flatten, map, filter or pack_list_into whose traversal
\* reaches a malformed value raises ValueError; it returns no result.
C12_Malformed ==
    (/\ op \in {"flatten", "map", "filter", "pack_list_into"}
     /\ is_atomic \in Predicates
     /\ ReachesMalformed(structure, is_atomic))
        => result = Raise("ValueError")

\* The number of elements of flat_list that pack_list_into reads.
Consumed(s, flat_list, p) ==
    IF s.k = "none" THEN 0 ELSE _pack_into_helper(s, flat_list, p, 0).index

\* C13: when assert_same_structure(a, b, p) succeeds, flatten(a, p) and
\* flatten(b, p) have the same length and pack_list_into(a, flatten(b, p), p)
\* returns, having consumed every element of the list.
C13_SameLeaves ==
    (op = "assert_same_structure" /\ result = None)
        => LET flat_a == flatten(structure, is_atomic)
               flat_b == flatten(arg, is_atomic)
           IN /\ ~IsErr(flat_a)
              /\ ~IsErr(flat_b)
              /\ Len(flat_a.ch) = Len(flat_b.ch)
              /\ ~IsErr(pack_list_into(structure, flat_b.ch, is_atomic))
              /\ Consumed(structure, flat_b.ch, is_atomic) = Len(flat_b.ch)

\* The leaves that satisfy func, in order.
Accepted(f, leaves) == SelectSeq(leaves, LAMBDA x : Test(f, x))

\* flatten(filter(func, s, keep_structure)) is the list of the leaves of
\* flatten(s) that satisfy func.
FilterLeaves ==
    /\ ~IsErr(result)
    /\ flatten(result, is_atomic) = List(Accepted(func, flatten(structure, is_atomic).ch))

\* Every element of every set of s is None or atomic under p.
RECURSIVE SetsOfLeaves(_, _)
SetsOfLeaves(s, p) ==
    \/ s.k = "none"
    \/ Atomic(p, s)
    \/ /\ \A i \in 1..Len(s.ch) : SetsOfLeaves(s.ch[i], p)
       /\ s.k = "set" => \A i \in 1..Len(s.ch) : ~IsContainer(s.ch[i], p)

====
